---- MODULE Spec2Model ----
(***************************************************************************)
(* Sales Analytics Dashboard (src/app.py): the analysis functions          *)
(* calculate_abc_analysis, calculate_growth_rate, analyze_profitability,   *)
(* analyze_operations, the discount binning and the sidebar filter         *)
(* pipeline of the Streamlit script.                                       *)
(*                                                                         *)
(* Numbers.  The script computes in IEEE doubles through pandas/numpy.     *)
(* The model computes in exact rationals, extended with the two special    *)
(* outcomes a pandas division produces instead of raising: NaN (0/0) and   *)
(* +-inf (x/0).  For the integer amounts enumerated here the comparisons   *)
(* against the thresholds 80 and 95 give the same answer in doubles and in *)
(* exact arithmetic; sums of three rounded doubles may differ from the     *)
(* exact sum in the last place, which the model does not represent.        *)
(***************************************************************************)
EXTENDS Integers, Sequences, FiniteSets, TLC

VARIABLES
    data,       \* the record set (DataFrame rows) handed to an analysis function
    current,    \* first argument of calculate_growth_rate
    previous,   \* second argument of calculate_growth_rate
    ret,        \* what the last call returned: [fn, raised, val]
    df,                   \* the loaded dataset (cached; empty when the load failed)
    start_date,           \* "Start Date" widget
    end_date,             \* "End Date" widget
    selected_states,      \* "Select States" widget
    selected_cities,      \* "Select Cities" widget
    selected_categories,  \* "Select Categories" widget
    available_cities,     \* the options of the "Select Cities" widget
    filtered_df,          \* the filtered view of the last pass, as derived
    shown,                \* what the last pass showed: a warning or the tabs
    load_message,         \* what load_data() reported
    calls,                \* the analysis functions the last pass called, in order
    kpi_delta,            \* the deltas beside Total Sales, Quantity and Profit
    profitability,        \* what analyze_profitability returned to tab 3
    filtered_df_end,      \* filtered_df as the pass left it
    abc_df,               \* what calculate_abc_analysis returned to tab 6
    abc_df_end,           \* abc_df as the pass left it
    operations            \* what analyze_operations returned to tab 7

coreVars == <<data, current, previous, ret>>

dashVars == <<df, start_date, end_date, selected_states, selected_cities,
              selected_categories, available_cities, filtered_df, shown,
              load_message, calls, kpi_delta, profitability, filtered_df_end,
              abc_df, abc_df_end, operations>>

vars == <<coreVars, dashVars>>

(***************************************************************************)
(* Bounds of the enumeration.                                              *)
(***************************************************************************)
MaxRecords == 3

(***************************************************************************)
(* Extended rationals: [kind, num, den] with kind "num" (num/den in lowest *)
(* terms, den > 0), "nan", or "inf" (num = 1 or -1 gives the sign).        *)
(***************************************************************************)
Abs(x) == IF x < 0 THEN -x ELSE x

RECURSIVE GCD(_, _)
GCD(a, b) == IF b = 0 THEN a ELSE GCD(b, a % b)

Num(n, d) ==
    LET g == GCD(Abs(n), d)
    IN  [kind |-> "num", num |-> n \div g, den |-> d \div g]

NaN == [kind |-> "nan", num |-> 0, den |-> 1]

Inf(sign) == [kind |-> "inf", num |-> sign, den |-> 1]

\* a / b as numpy/pandas divides: no exception, 0/0 is NaN, x/0 is +-inf.
Div(a, b) ==
    IF b = 0 THEN (IF a = 0 THEN NaN ELSE IF a > 0 THEN Inf(1) ELSE Inf(-1))
    ELSE IF b > 0 THEN Num(a, b) ELSE Num(-a, -b)

\* x * 100
Times100(x) == IF x.kind = "num" THEN Num(x.num * 100, x.den) ELSE x

\* x <= c for an integer c; every comparison with NaN is False.
LeqInt(x, c) ==
    CASE x.kind = "num" -> x.num <= c * x.den
      [] x.kind = "inf" -> x.num < 0
      [] OTHER          -> FALSE

\* x > c for an integer c; every comparison with NaN is False.
GtInt(x, c) ==
    CASE x.kind = "num" -> x.num > c * x.den
      [] x.kind = "inf" -> x.num > 0
      [] OTHER          -> FALSE

\* x <= y
Leq(x, y) ==
    CASE x.kind = "nan" \/ y.kind = "nan" -> FALSE
      [] x.kind = "num" /\ y.kind = "num" -> x.num * y.den <= y.num * x.den
      [] x.kind = "inf" -> x.num < 0 \/ (y.kind = "inf" /\ y.num > 0)
      [] OTHER          -> y.num > 0

RECURSIVE Sum(_)
Sum(s) == IF s = <<>> THEN 0 ELSE s[1] + Sum(Tail(s))

(***************************************************************************)
(* Column values.  Product names in their sort order (groupby sorts its    *)
(* keys).                                                                  *)
(***************************************************************************)
Products == <<"P1", "P2", "P3">>

\* Sales amounts of the enumerated records (non-negative, as the data model
\* states).  0 makes a zero grand total; 19 and 1 put a product exactly on
\* 95%; 500, 300, 200 put one exactly on 80%.
SalesValues == {0, 1, 19, 200, 300, 500}

\* Profit of an enumerated record: a loss on the small sales, a tenth otherwise.
ProfitOf(s) == IF s < 100 THEN -1 ELSE s \div 10

\* The records calculate_abc_analysis is fed: the columns it reads.
AbcRecords ==
    { [Product_Name |-> Products[k], Sales_Amount |-> s, Profit_INR |-> ProfitOf(s)] :
        k \in DOMAIN Products, s \in SalesValues }

NoCall == [fn |-> "none", raised |-> "none", val |-> <<>>]

(***************************************************************************)
(* calculate_abc_analysis                                                  *)
(***************************************************************************)
\* data.groupby('Product Name'): the distinct keys present, sorted.
GroupKeys(d) ==
    SelectSeq(Products, LAMBDA p : \E i \in DOMAIN d : d[i].Product_Name = p)

\* .agg({'Sales Amount': 'sum', 'Order Date': 'count', 'Profit (INR)': 'mean'})
\* .reset_index(), columns renamed Product, Total_Sales, Frequency, Avg_Profit.
product_metrics(d) ==
    LET keys == GroupKeys(d)
    IN  [i \in 1..Len(keys) |->
            LET g == SelectSeq(d, LAMBDA r : r.Product_Name = keys[i])
            IN  [ Product     |-> keys[i],
                  Total_Sales |-> Sum([j \in 1..Len(g) |-> g[j].Sales_Amount]),
                  Frequency   |-> Len(g),
                  Avg_Profit  |-> Div(Sum([j \in 1..Len(g) |-> g[j].Profit_INR]), Len(g)) ]]

\* .sort_values('Total_Sales', ascending=False) with the default (unstable)
\* sort kind: every arrangement with non-increasing Total_Sales is a possible
\* outcome; rows with equal totals may come in either order.
sort_values(pm) ==
    LET n == Len(pm)
    IN  { [i \in 1..n |-> pm[q[i]]] :
            q \in { p \in Permutations(1..n) :
                      \A i, j \in 1..n : i < j => pm[p[i]].Total_Sales >= pm[p[j]].Total_Sales } }

\* A variant with the boundaries exclusive on the upper end.
categorize_abc_exclusive(pct) ==
    IF pct.kind = "num" /\ pct.num < 80 * pct.den THEN "A"
    ELSE IF pct.kind = "num" /\ pct.num < 95 * pct.den THEN "B"
    ELSE "C"

categorize_abc(pct) ==
    IF LeqInt(pct, 80) THEN "A"
    ELSE IF LeqInt(pct, 95) THEN "B"
    ELSE "C"

\* A variant whose condition list lacks the class 'C' entry: those rows fall
\* to the default.
Recommendation_without_C(class) ==
    CASE class = "A" -> "Restock Immediately"
      [] class = "B" -> "Maintain Stock"
      [] OTHER       -> "Unknown"

\* np.select(conditions, choices, default="Unknown")
Recommendation(class) ==
    CASE class = "A" -> "Restock Immediately"
      [] class = "B" -> "Maintain Stock"
      [] class = "C" -> "Monitor / Clearance"
      [] OTHER       -> "Unknown"

\* The columns added to the sorted table: cumsum, grand total, percentage,
\* class and recommendation.
AbcTable(sorted) ==
    LET n      == Len(sorted)
        totals == [i \in 1..n |-> sorted[i].Total_Sales]
        grand  == Sum(totals)
    IN  [i \in 1..n |->
            LET cum == Sum(SubSeq(totals, 1, i))
                pct == Times100(Div(cum, grand))
                cls == categorize_abc(pct)
            IN  [ Product           |-> sorted[i].Product,
                  Total_Sales       |-> sorted[i].Total_Sales,
                  Frequency         |-> sorted[i].Frequency,
                  Avg_Profit        |-> sorted[i].Avg_Profit,
                  Cumulative_Sales  |-> cum,
                  Total_Revenue_Sum |-> grand,
                  Cumulative_Pct    |-> pct,
                  Class             |-> cls,
                  Recommendation    |-> Recommendation(cls) ]]

\* A variant that divides by the grand total as a plain Python number would:
\* ZeroDivisionError when the total is 0.
calculate_abc_analysis_scalar_div(d) ==
    IF Sum([j \in 1..Len(d) |-> d[j].Sales_Amount]) = 0
    THEN { [raised |-> "ZeroDivisionError", val |-> <<>>] }
    ELSE { [raised |-> "none", val |-> AbcTable(s)] : s \in sort_values(product_metrics(d)) }

\* The possible results of calculate_abc_analysis(data).  No statement of the
\* function raises: every division is a Series division.
calculate_abc_analysis(d) ==
    { [raised |-> "none", val |-> AbcTable(s)] : s \in sort_values(product_metrics(d)) }

(***************************************************************************)
(* Specification SpecABC: calculate_abc_analysis on every record set of at *)
(* most MaxRecords records.                                                *)
(***************************************************************************)
\* The dashboard is not running while a function is exercised on its own.
DashIdle ==
    /\ df = <<>>
    /\ start_date = 0
    /\ end_date = 0
    /\ selected_states = {}
    /\ selected_cities = {}
    /\ selected_categories = {}
    /\ available_cities = {}
    /\ filtered_df = <<>>
    /\ shown = "nothing"
    /\ load_message = "none"
    /\ calls = <<>>
    /\ kpi_delta = <<>>
    /\ profitability = <<>>
    /\ filtered_df_end = <<>>
    /\ abc_df = <<>>
    /\ abc_df_end = <<>>
    /\ operations = <<>>

InitCore ==
    /\ data = <<>>
    /\ current = 0
    /\ previous = 0
    /\ ret = NoCall
    /\ DashIdle

AbcAddRecord ==
    /\ Len(data) < MaxRecords
    /\ \E r \in AbcRecords : data' = Append(data, r)
    /\ ret' = NoCall
    /\ UNCHANGED <<current, previous>>
    /\ UNCHANGED dashVars

AbcCall ==
    /\ \E out \in calculate_abc_analysis(data) :
          ret' = [fn |-> "calculate_abc_analysis", raised |-> out.raised, val |-> out.val]
    /\ UNCHANGED <<data, current, previous>>
    /\ UNCHANGED dashVars

NextABC == AbcAddRecord \/ AbcCall

SpecABC == InitCore /\ [][NextABC]_vars

AbcReturned == ret.fn = "calculate_abc_analysis" /\ ret.raised = "none"

\* C1: every row of the ABC table has exactly one class, decided by its
\* cumulative percentage alone: A iff pct <= 80, B iff 80 < pct <= 95,
\* C iff pct > 95.
C1_ClassDecidedByCumulativePct ==
    AbcReturned =>
        \A i \in DOMAIN ret.val :
            LET pct == ret.val[i].Cumulative_Pct
                cls == ret.val[i].Class
            IN  /\ cls \in {"A", "B", "C"}
                /\ (cls = "A") <=> LeqInt(pct, 80)
                /\ (cls = "B") <=> (GtInt(pct, 80) /\ LeqInt(pct, 95))
                /\ (cls = "C") <=> GtInt(pct, 95)

\* The distinct product names of a record set.
ProductsIn(d) == { d[i].Product_Name : i \in DOMAIN d }

\* C2: for a non-empty record set the table has one row per distinct product,
\* ordered by Total_Sales descending; Cumulative_Pct is non-decreasing along
\* that order and is 100 at the last row.
C2_CumulativePctMonotoneTo100 ==
    (AbcReturned /\ data # <<>>) =>
        LET t == ret.val
            n == Len(t)
        IN  /\ n = Cardinality(ProductsIn(data))
            /\ { t[i].Product : i \in 1..n } = ProductsIn(data)
            /\ \A i \in 1..(n - 1) : t[i].Total_Sales >= t[i + 1].Total_Sales
            /\ \A i \in 1..(n - 1) : Leq(t[i].Cumulative_Pct, t[i + 1].Cumulative_Pct)
            /\ t[n].Cumulative_Pct = Num(100, 1)

\* The sales of product p summed over a record set.
SalesOfProduct(d, p) ==
    Sum([j \in 1..Len(d) |-> IF d[j].Product_Name = p THEN d[j].Sales_Amount ELSE 0])

\* Three products whose total sales are 500, 300 and 200.
Scenario500_300_200 ==
    /\ Cardinality(ProductsIn(data)) = 3
    /\ { SalesOfProduct(data, p) : p \in ProductsIn(data) } = {500, 300, 200}

\* C3 as stated: products with total sales 500, 300, 200 get cumulative
\* percentages 50, 80, 100 and classes A, A, B, in sort order.
C3_Scenario500_300_200_AAB ==
    (AbcReturned /\ Scenario500_300_200) =>
        /\ [i \in 1..Len(ret.val) |-> ret.val[i].Total_Sales] = <<500, 300, 200>>
        /\ [i \in 1..Len(ret.val) |-> ret.val[i].Cumulative_Pct]
              = <<Num(50, 1), Num(80, 1), Num(100, 1)>>
        /\ [i \in 1..Len(ret.val) |-> ret.val[i].Class] = <<"A", "A", "B">>

\* C3 amended: products with total sales 500, 300, 200 get cumulative
\* percentages 50, 80, 100 and classes A, A, C, in sort order (the last row,
\* at 100 > 95, is class C).
C3_Scenario500_300_200_AAC ==
    (AbcReturned /\ Scenario500_300_200) =>
        /\ [i \in 1..Len(ret.val) |-> ret.val[i].Total_Sales] = <<500, 300, 200>>
        /\ [i \in 1..Len(ret.val) |-> ret.val[i].Cumulative_Pct]
              = <<Num(50, 1), Num(80, 1), Num(100, 1)>>
        /\ [i \in 1..Len(ret.val) |-> ret.val[i].Class] = <<"A", "A", "C">>

C3_Witness ==
    /\ AbcReturned
    /\ Scenario500_300_200
    /\ Len(ret.val) = 3
    /\ ret.val[2].Class = "A"
    /\ ret.val[3].Class = "C"

\* C4: on the empty record set calculate_abc_analysis returns the empty table
\* and raises nothing.
C4_EmptyInputEmptyTable ==
    (ret.fn = "calculate_abc_analysis" /\ data = <<>>) =>
        (ret.raised = "none" /\ ret.val = <<>>)

C4_Witness ==
    /\ ret.fn = "calculate_abc_analysis"
    /\ data = <<>>
    /\ ret.val = <<>>

\* C11: every row of the ABC table carries the fixed recommendation of its
\* class (A: restock immediately, B: maintain stock, C: monitor/clearance);
\* the default 'Unknown' never appears.
C11_RecommendationOfClass ==
    AbcReturned =>
        \A i \in DOMAIN ret.val :
            LET row == ret.val[i]
            IN  /\ row.Recommendation # "Unknown"
                /\ row.Class = "A" => row.Recommendation = "Restock Immediately"
                /\ row.Class = "B" => row.Recommendation = "Maintain Stock"
                /\ row.Class = "C" => row.Recommendation = "Monitor / Clearance"
                /\ row.Class \in {"A", "B", "C"}

\* A table holding a row of each class.
C11_Witness ==
    /\ AbcReturned
    /\ Len(ret.val) = 3
    /\ ret.val[1].Class = "A" /\ ret.val[1].Recommendation = "Restock Immediately"
    /\ ret.val[2].Class = "B" /\ ret.val[2].Recommendation = "Maintain Stock"
    /\ ret.val[3].Class = "C" /\ ret.val[3].Recommendation = "Monitor / Clearance"

(***************************************************************************)
(* calculate_growth_rate                                                   *)
(***************************************************************************)
\* Bound on the magnitude of the enumerated arguments.
GrowthRange == 100

\* A variant that divides by previous instead of abs(previous).
calculate_growth_rate_no_abs(cur, prev) ==
    IF prev = 0 THEN Num(0, 1)
    ELSE Times100(Div(cur - prev, prev))

calculate_growth_rate(cur, prev) ==
    IF prev = 0 THEN Num(0, 1)
    ELSE Times100(Div(cur - prev, Abs(prev)))

\* Every pair of arguments within the range.
InitGrowth ==
    /\ data = <<>>
    /\ current \in (-GrowthRange)..GrowthRange
    /\ previous \in (-GrowthRange)..GrowthRange
    /\ ret = NoCall
    /\ DashIdle

GrowthCall ==
    /\ ret' = [fn |-> "calculate_growth_rate", raised |-> "none",
               val |-> calculate_growth_rate(current, previous)]
    /\ UNCHANGED <<data, current, previous>>
    /\ UNCHANGED dashVars

NextGrowth == GrowthCall

SpecGrowth == InitGrowth /\ [][NextGrowth]_vars

\* C5: calculate_growth_rate(current, previous) is 0 when previous = 0 and
\* otherwise (current - previous) / |previous| * 100, so its sign is the sign
\* of current - previous also for a negative previous; growth_rate(100, 50)
\* is 100 and growth_rate(50, 100) is -50.
C5_GrowthRate ==
    ret.fn = "calculate_growth_rate" =>
        /\ ret.raised = "none"
        /\ ret.val.kind = "num"
        /\ previous = 0 => ret.val = Num(0, 1)
        /\ previous # 0 =>
              /\ ret.val.num * Abs(previous) = (current - previous) * 100 * ret.val.den
              /\ (ret.val.num > 0) <=> (current > previous)
              /\ (ret.val.num < 0) <=> (current < previous)
        /\ (current = 100 /\ previous = 50) => ret.val = Num(100, 1)
        /\ (current = 50 /\ previous = 100) => ret.val = Num(-50, 1)

C5_Witness ==
    /\ ret.fn = "calculate_growth_rate"
    /\ previous < 0
    /\ current > previous
    /\ ret.val.num > 0

(***************************************************************************)
(* analyze_operations                                                      *)
(***************************************************************************)
\* Bound on the number of orders handed to analyze_operations.
MaxOrders == 4

\* Order statuses: the three the function looks up and one other.
Statuses == {"Delivered", "Returned", "Cancelled", "Shipped"}

\* The statuses in one fixed order, to list the ones present.
StatusOrder == <<"Cancelled", "Delivered", "Returned", "Shipped">>

OpsRecords == { [Order_Status |-> st] : st \in Statuses }

\* The number of rows with the status.
CountStatus(d, st) == Cardinality({ i \in DOMAIN d : d[i].Order_Status = st })

\* df['Order Status'].value_counts(): one entry per status present, sorted by
\* count descending; entries with equal counts may come in either order.
value_counts(d) ==
    LET present == SelectSeq(StatusOrder, LAMBDA st : CountStatus(d, st) > 0)
        n       == Len(present)
        entry   == [i \in 1..n |->
                      [status |-> present[i], count |-> CountStatus(d, present[i])]]
    IN  { [i \in 1..n |-> entry[q[i]]] :
            q \in { p \in Permutations(1..n) :
                      \A i, j \in 1..n : i < j => entry[p[i]].count >= entry[p[j]].count } }

\* status_counts.get(st, 0)
Get(status_counts, st, default) ==
    IF \E i \in DOMAIN status_counts : status_counts[i].status = st
    THEN (CHOOSE e \in { status_counts[i] : i \in DOMAIN status_counts } :
              e.status = st).count
    ELSE default

\* delivered / total_orders * 100, for total_orders > 0.
OpsRate(count, total_orders) == Times100(Div(count, total_orders))

\* The body of analyze_operations after value_counts.  The rates are computed
\* on Python numbers: without the "if total_orders > 0" guards a division by
\* a total of 0 raises ZeroDivisionError.
OpsResult(status_counts, total_orders, guarded) ==
    LET delivered == Get(status_counts, "Delivered", 0)
        returned  == Get(status_counts, "Returned", 0)
        cancelled == Get(status_counts, "Cancelled", 0)
    IN  IF total_orders > 0
        THEN [raised |-> "none",
              val |-> [status_counts     |-> status_counts,
                       fulfillment_rate  |-> OpsRate(delivered, total_orders),
                       return_rate       |-> OpsRate(returned, total_orders),
                       cancellation_rate |-> OpsRate(cancelled, total_orders)]]
        ELSE IF guarded
        THEN [raised |-> "none",
              val |-> [status_counts     |-> status_counts,
                       fulfillment_rate  |-> Num(0, 1),
                       return_rate       |-> Num(0, 1),
                       cancellation_rate |-> Num(0, 1)]]
        ELSE [raised |-> "ZeroDivisionError", val |-> <<>>]

\* A variant without the total_orders > 0 guards.
analyze_operations_unguarded(d) ==
    { OpsResult(sc, Len(d), FALSE) : sc \in value_counts(d) }

\* The possible results of analyze_operations(df).
analyze_operations(d) ==
    { OpsResult(sc, Len(d), TRUE) : sc \in value_counts(d) }

OpsAddRecord ==
    /\ Len(data) < MaxOrders
    /\ \E r \in OpsRecords : data' = Append(data, r)
    /\ ret' = NoCall
    /\ UNCHANGED <<current, previous>>
    /\ UNCHANGED dashVars

OpsCall ==
    /\ \E out \in analyze_operations(data) :
          ret' = [fn |-> "analyze_operations", raised |-> out.raised, val |-> out.val]
    /\ UNCHANGED <<data, current, previous>>
    /\ UNCHANGED dashVars

NextOps == OpsAddRecord \/ OpsCall

SpecOps == InitCore /\ [][NextOps]_vars

\* rate = count / total * 100, stated without division.
IsRateOf(rate, count, total) ==
    rate.kind = "num" /\ rate.num * total = count * 100 * rate.den

Categories == <<"Books", "Toys">>

ProfitSalesValues == {0, 50, 100}

ProfitValues == {-10, 0, 20}

\* Quantity of an enumerated record.
QuantityOf(s) == 1 + s \div 50

ProfitRecords ==
    { [Category |-> Categories[k], Sales_Amount |-> s, Profit_INR |-> pr,
       Quantity |-> QuantityOf(s)] :
        k \in DOMAIN Categories, s \in ProfitSalesValues, pr \in ProfitValues }

\* n/d (d > 0) rounded to the nearest integer, halves to the even one.
RoundHalfEven(n, d) ==
    LET q == n \div d
        r == n - q * d
    IN  IF 2 * r < d THEN q
        ELSE IF 2 * r > d THEN q + 1
        ELSE IF q % 2 = 0 THEN q ELSE q + 1

\* Series.round(2)
Round2(x) ==
    IF x.kind = "num" THEN Num(RoundHalfEven(x.num * 100, x.den), 100) ELSE x

\* df.groupby('Category').agg(sum of profit, sales, quantity).reset_index()
\* with the Margin% column.
category_profit(d) ==
    LET keys == SelectSeq(Categories, LAMBDA c : \E i \in DOMAIN d : d[i].Category = c)
    IN  [i \in 1..Len(keys) |->
            LET g      == SelectSeq(d, LAMBDA r : r.Category = keys[i])
                profit == Sum([j \in 1..Len(g) |-> g[j].Profit_INR])
                sales  == Sum([j \in 1..Len(g) |-> g[j].Sales_Amount])
            IN  [ Category     |-> keys[i],
                  Profit_INR   |-> profit,
                  Sales_Amount |-> sales,
                  Quantity     |-> Sum([j \in 1..Len(g) |-> g[j].Quantity]),
                  Margin       |-> Round2(Times100(Div(profit, sales))) ]]

\* A variant without the "if sum > 0 else 0" guard: numpy divides by zero
\* without raising.
profit_margin_unguarded(total_profit, total_sales) ==
    Times100(Div(total_profit, total_sales))

\* (total_profit / sum) * 100 if sum > 0 else 0
profit_margin(total_profit, total_sales) ==
    IF total_sales > 0 THEN Times100(Div(total_profit, total_sales)) ELSE Num(0, 1)

analyze_profitability(d) ==
    LET total_profit == Sum([j \in 1..Len(d) |-> d[j].Profit_INR])
        total_sales  == Sum([j \in 1..Len(d) |-> d[j].Sales_Amount])
    IN  [ total_profit    |-> total_profit,
          avg_profit      |-> Div(total_profit, Len(d)),
          profit_margin   |-> profit_margin(total_profit, total_sales),
          category_profit |-> category_profit(d) ]

ProfitAddRecord ==
    /\ Len(data) < MaxRecords
    /\ \E r \in ProfitRecords : data' = Append(data, r)
    /\ ret' = NoCall
    /\ UNCHANGED <<current, previous>>
    /\ UNCHANGED dashVars

ProfitCall ==
    /\ ret' = [fn |-> "analyze_profitability", raised |-> "none",
               val |-> analyze_profitability(data)]
    /\ UNCHANGED <<data, current, previous>>
    /\ UNCHANGED dashVars

NextProfit == ProfitAddRecord \/ ProfitCall

SpecProfit == InitCore /\ [][NextProfit]_vars

\* The sums of the two columns of a record set, for stating C7.
SumSales(d) == Sum([j \in 1..Len(d) |-> d[j].Sales_Amount])

SumProfit(d) == Sum([j \in 1..Len(d) |-> d[j].Profit_INR])

\* C7: the profit margin is 0 whenever the sales of the record set sum to 0,
\* whatever the profit sum, and total profit / total sales * 100 otherwise;
\* no exception in either case.
C7_ProfitMargin ==
    ret.fn = "analyze_profitability" =>
        /\ ret.raised = "none"
        /\ SumSales(data) = 0 => ret.val.profit_margin = Num(0, 1)
        /\ SumSales(data) # 0 =>
              /\ ret.val.profit_margin.kind = "num"
              /\ ret.val.profit_margin.num * SumSales(data)
                    = SumProfit(data) * 100 * ret.val.profit_margin.den

C7_Witness ==
    /\ ret.fn = "analyze_profitability"
    /\ data # <<>>
    /\ SumSales(data) = 0
    /\ SumProfit(data) < 0
    /\ ret.val.profit_margin = Num(0, 1)

(***************************************************************************)
(* Discount binning (tab 4)                                                *)
(***************************************************************************)
\* Bound on the number of rows handed to the binning.
MaxDiscountRows == 2

\* Discounts and bin edges in hundredths: 0.10 is 10, -0.01 is -1.
DiscountBins == <<-1, 10, 20, 30, 50, 100>>

DiscountLabels == <<"0-10%", "10-20%", "20-30%", "30-50%", "50%+">>

\* Discounts of the enumerated rows: the edges, their neighbours, 0.55 and
\* values outside [0, 1].
DiscountValues == {-5, -1, 0, 1, 10, 11, 20, 21, 30, 31, 50, 51, 55, 100, 101}

DiscountRecords ==
    { [Discount |-> d, Profit_INR |-> pr] : d \in DiscountValues, pr \in {-10, 20} }

\* A variant of pd.cut with right=False: intervals closed on the left.
cut_left_closed(x) ==
    IF \E k \in 1..Len(DiscountLabels) : DiscountBins[k] <= x /\ x < DiscountBins[k + 1]
    THEN DiscountLabels[CHOOSE k \in 1..Len(DiscountLabels) :
                            DiscountBins[k] <= x /\ x < DiscountBins[k + 1]]
    ELSE "NaN"

\* pd.cut(x, bins=DiscountBins, labels=DiscountLabels): the label of the
\* interval (bins[k], bins[k+1]] holding x, NaN when none does.
cut(x) ==
    IF \E k \in 1..Len(DiscountLabels) : DiscountBins[k] < x /\ x <= DiscountBins[k + 1]
    THEN DiscountLabels[CHOOSE k \in 1..Len(DiscountLabels) :
                            DiscountBins[k] < x /\ x <= DiscountBins[k + 1]]
    ELSE "NaN"

\* filtered_df['Discount_Range']
Discount_Range(d) == [i \in 1..Len(d) |-> cut(d[i].Discount)]

\* groupby('Discount_Range', observed=True)['Profit (INR)'].mean().reset_index():
\* one row per label observed, in label order.
disc_impact(d) ==
    LET col  == Discount_Range(d)
        keys == SelectSeq(DiscountLabels, LAMBDA l : \E i \in DOMAIN col : col[i] = l)
    IN  [k \in 1..Len(keys) |->
            LET idx == { i \in DOMAIN col : col[i] = keys[k] }
            IN  [ Discount_Range |-> keys[k],
                  Profit_INR |-> Div(Sum([i \in 1..Len(d) |->
                                            IF i \in idx THEN d[i].Profit_INR ELSE 0]),
                                     Cardinality(idx)) ]]

DiscountAddRecord ==
    /\ Len(data) < MaxDiscountRows
    /\ \E r \in DiscountRecords : data' = Append(data, r)
    /\ ret' = NoCall
    /\ UNCHANGED <<current, previous>>
    /\ UNCHANGED dashVars

DiscountBin ==
    /\ ret' = [fn |-> "Discount_Range", raised |-> "none",
               val |-> [Discount_Range |-> Discount_Range(data),
                        disc_impact    |-> disc_impact(data)]]
    /\ UNCHANGED <<data, current, previous>>
    /\ UNCHANGED dashVars

NextDiscount == DiscountAddRecord \/ DiscountBin

SpecDiscount == InitCore /\ [][NextDiscount]_vars

\* The fixed buckets of the claim, in hundredths: (lower, upper] and label.
ClaimedBuckets ==
    { <<-1, 10, "0-10%">>, <<10, 20, "10-20%">>, <<20, 30, "20-30%">>,
      <<30, 50, "30-50%">>, <<50, 100, "50%+">> }

\* C9: the buckets are the fixed upper-inclusive intervals between the edges
\* -0.01, 0.10, 0.20, 0.30, 0.50, 1.0, whatever the data: every discount in
\* [0, 1] gets the label of the one bucket holding it; 0.0 and 0.10 get
\* '0-10%' and 0.55 gets '50%+'.
C9_DiscountBuckets ==
    ret.fn = "Discount_Range" =>
        \A i \in DOMAIN data :
            LET d     == data[i].Discount
                label == ret.val.Discount_Range[i]
            IN  /\ (0 <= d /\ d <= 100) =>
                      /\ Cardinality({ b \in ClaimedBuckets : b[1] < d /\ d <= b[2] }) = 1
                      /\ \E b \in ClaimedBuckets : b[1] < d /\ d <= b[2] /\ label = b[3]
                /\ d \in {0, 10} => label = "0-10%"
                /\ d = 55 => label = "50%+"

C9_Witness ==
    /\ ret.fn = "Discount_Range"
    /\ Len(data) = 2
    /\ data[1].Discount = 10
    /\ data[2].Discount = 55
    /\ ret.val.Discount_Range = <<"0-10%", "50%+">>

(***************************************************************************)
(* The dashboard script: load, sidebar filters, filtered view, tabs.       *)
(* Every widget change reruns the script from the top against the cached   *)
(* df.  Of the tabs the model keeps what the script derives and keeps in   *)
(* its variables: the KPI deltas, the results of the analysis functions    *)
(* and the columns the tabs add to filtered_df and abc_df; the charts and  *)
(* the scenario calculator of tab 2 derive nothing that is read again.     *)
(***************************************************************************)
\* Bound on the number of rows of the loaded dataset.
MaxRows == 2

\* State, city and category names in their sort order (sorted(...)).
States == <<"S1", "S2">>

Cities == <<"C1", "C2", "C3">>

\* Where the enumerated orders were placed and what was sold there: state,
\* city, product, sales amount, quantity, profit.  C2 occurs in both states;
\* the last place sells at no revenue and at a loss.
Places ==
    { <<"S1", "C1", "P1", 500, 5, 50>>, <<"S1", "C2", "P2", 300, 3, -40>>,
      <<"S2", "C2", "P3", 200, 2, 20>>, <<"S2", "C3", "P1", 0, 1, -10>> }

\* When, in which category, with which status and discount (in hundredths):
\* the afternoon of day 1, the morning of day 2.  Order dates are timestamps,
\* two ticks to the day.
Orders == { <<3, "Books", "Delivered", 10>>, <<4, "Toys", "Returned", 55>> }

\* The rows of the spreadsheet.
SheetRows ==
    { [Order_Date |-> o[1], State |-> pl[1], City |-> pl[2], Category |-> o[2],
       Product_Name |-> pl[3], Sales_Amount |-> pl[4], Quantity |-> pl[5],
       Profit_INR |-> pl[6], Order_Status |-> o[3], Discount |-> o[4]] :
        pl \in Places, o \in Orders }

\* The dates a user picks in the date inputs.
DateChoices == 1..2

\* Series.dt.date: the day of a timestamp.
DateOf(t) == t \div 2

WeekDays == <<"Monday", "Tuesday", "Wednesday", "Thursday", "Friday", "Saturday", "Sunday">>

\* Series.dt.day_name(); day 1 is a Friday.
day_name(t) == WeekDays[((DateOf(t) + 3) % 7) + 1]

\* The rows load_data() returns for a sheet row: the time-series columns are
\* added (of them the model keeps DayOfWeek, the one a tab reads back).
RawRows == { r @@ [DayOfWeek |-> day_name(r.Order_Date)] : r \in SheetRows }

\* What load_data() can return when it reads the file: a dataset, possibly
\* without rows.
Datasets == UNION { [1..n -> RawRows] : n \in 0..MaxRows }

\* How load_data() can end: the file is missing (st.error, empty frame), it
\* cannot be read (st.error, empty frame), reading succeeds but a later
\* statement such as df['Order Date'] raises, or a dataset is returned.
LoadOutcomes == {"file_not_found", "read_error", "exception", "none"}

\* The members of a set as a list in sort order: sorted(x.unique()).
Sorted(order, set) == SelectSeq(order, LAMBDA x : x \in set)

Range(seq) == { seq[i] : i \in DOMAIN seq }

RECURSIVE Min(_)
Min(S) == LET x == CHOOSE y \in S : TRUE
          IN  IF S = {x} THEN x
              ELSE LET m == Min(S \ {x}) IN IF x < m THEN x ELSE m

RECURSIVE Max(_)
Max(S) == LET x == CHOOSE y \in S : TRUE
          IN  IF S = {x} THEN x
              ELSE LET m == Max(S \ {x}) IN IF x > m THEN x ELSE m

\* df['Order Date'].min().date() and .max().date()
min_d(frame) == DateOf(Min({ frame[i].Order_Date : i \in DOMAIN frame }))

max_d(frame) == DateOf(Max({ frame[i].Order_Date : i \in DOMAIN frame }))

all_states(frame) == Sorted(States, { frame[i].State : i \in DOMAIN frame })

all_categories(frame) == Sorted(Categories, { frame[i].Category : i \in DOMAIN frame })

\* default=options[:5] if len(options) >= 5 else options
DefaultFive(options) == IF Len(options) >= 5 THEN SubSeq(options, 1, 5) ELSE options

\* A variant that offers every city of the dataset.
available_cities_all(frame, states) == { frame[i].City : i \in DOMAIN frame }

\* df[df['State'].isin(selected_states)]['City'].unique()
available_cities_of(frame, states) ==
    { frame[i].City : i \in { j \in DOMAIN frame : frame[j].State \in states } }

\* A variant with the end date exclusive.
date_filtered_end_exclusive(frame, start, end) ==
    SelectSeq(frame, LAMBDA r : DateOf(r.Order_Date) >= start /\ DateOf(r.Order_Date) < end)

\* df[(df['Order Date'].dt.date >= start_date) & (df['Order Date'].dt.date <= end_date)]
date_filtered_df(frame, start, end) ==
    SelectSeq(frame, LAMBDA r : DateOf(r.Order_Date) >= start /\ DateOf(r.Order_Date) <= end)

\* date_filtered_df[State.isin(...) & City.isin(...) & Category.isin(...)]
FilteredView(frame, start, end, states, cities, categories) ==
    SelectSeq(date_filtered_df(frame, start, end),
              LAMBDA r : r.State \in states /\ r.City \in cities /\ r.Category \in categories)

\* A variant without the "if len(filtered_df) == 0" guard.
tabs_shown_always(view) == TRUE

\* The else branch of "if len(filtered_df) == 0": the tabs are built.
tabs_shown(view) == Len(view) # 0

\* frame[column].sum()
ColumnSum(frame, column) == Sum([j \in 1..Len(frame) |-> frame[j][column]])

\* f"{x:.1f}": x to one decimal, halves to the even digit.
Format1(x) ==
    IF x.kind = "num" THEN Num(RoundHalfEven(x.num * 10, x.den), 10) ELSE x

KpiColumns == {"Sales_Amount", "Quantity", "Profit_INR"}

\* A variant with the arguments of calculate_growth_rate exchanged.
kpi_deltas_swapped(frame, view) ==
    [c \in KpiColumns |->
        Format1(calculate_growth_rate(ColumnSum(frame, c), ColumnSum(view, c)))]

\* Tab 1: delta=f"{calculate_growth_rate(total, df[column].sum()):.1f}%" of the
\* three KPI cards.
kpi_deltas(frame, view) ==
    [c \in KpiColumns |->
        Format1(calculate_growth_rate(ColumnSum(view, c), ColumnSum(frame, c)))]

\* Tab 4: filtered_df['Discount_Range'] = ..., filtered_df['Is_Weekend'] = ...,
\* filtered_df['Day_Type'] = ...: the frame with the three columns assigned.
tab4_columns(view) ==
    [i \in 1..Len(view) |->
        view[i] @@ [ Discount_Range |-> cut(view[i].Discount),
                     Is_Weekend     |-> view[i].DayOfWeek \in {"Saturday", "Sunday"},
                     Day_Type       |-> IF view[i].DayOfWeek \in {"Saturday", "Sunday"}
                                        THEN "Weekend" ELSE "Weekday" ]]

\* Tab 6: abc_df['Est_Inventory'] = abc_df['Total_Sales'] * 0.2 and
\* abc_df['Turnover_Ratio'] = abc_df['Total_Sales'] / abc_df['Est_Inventory'].
inventory_columns(table) ==
    [i \in 1..Len(table) |->
        LET est == Num(table[i].Total_Sales * 2, 10)
        IN  table[i] @@ [ Est_Inventory  |-> est,
                          Turnover_Ratio |-> Div(table[i].Total_Sales * est.den, est.num) ]]

\* The analysis functions the tabs call, in the order of the script: three
\* KPI deltas, tab 3, tab 6, tab 7.
TabCalls ==
    << "calculate_growth_rate", "calculate_growth_rate", "calculate_growth_rate",
       "analyze_profitability", "calculate_abc_analysis", "analyze_operations" >>

\* What the script does below the filters with the filtered view: the warning,
\* or the tabs.  The possible outcomes differ in the order of tied rows.
Tabs(frame, view) ==
    IF ~tabs_shown(view)
    THEN { [ shown |-> "no_data_warning", calls |-> <<>>, kpi_delta |-> <<>>,
             profitability |-> <<>>, filtered_df_end |-> view,
             abc_df |-> <<>>, abc_df_end |-> <<>>, operations |-> <<>> ] }
    ELSE LET after4 == tab4_columns(view)
         IN  { [ shown           |-> "tabs",
                 calls           |-> TabCalls,
                 kpi_delta       |-> kpi_deltas(frame, view),
                 profitability   |-> analyze_profitability(view),
                 filtered_df_end |-> after4,
                 abc_df          |-> abc.val,
                 abc_df_end      |-> inventory_columns(abc.val),
                 operations      |-> ops.val ] :
                 abc \in calculate_abc_analysis(after4),
                 ops \in analyze_operations(after4) }

\* One run of the script below the load, with the widgets at the given values.
\* The city widget keeps the user's choice `cities` only while its options are
\* the ones it was created with; with other options it is a new widget at its
\* default.
Pass(start, end, states, cities, categories) ==
    LET options == available_cities_of(df, states)
        chosen  == IF options = available_cities THEN cities
                   ELSE Range(DefaultFive(Sorted(Cities, options)))
        view    == FilteredView(df, start, end, states, chosen, categories)
    IN  /\ start_date' = start
        /\ end_date' = end
        /\ selected_states' = states
        /\ available_cities' = options
        /\ selected_cities' = chosen
        /\ selected_categories' = categories
        /\ filtered_df' = view
        /\ \E t \in Tabs(df, view) :
              /\ shown' = t.shown
              /\ calls' = t.calls
              /\ kpi_delta' = t.kpi_delta
              /\ profitability' = t.profitability
              /\ filtered_df_end' = t.filtered_df_end
              /\ abc_df' = t.abc_df
              /\ abc_df_end' = t.abc_df_end
              /\ operations' = t.operations
        /\ UNCHANGED <<df, load_message, coreVars>>

\* The script stopped before the sidebar: nothing below the load has run.
NoSidebar ==
    /\ start_date = 0
    /\ end_date = 0
    /\ selected_states = {}
    /\ selected_cities = {}
    /\ selected_categories = {}
    /\ available_cities = {}
    /\ filtered_df = <<>>
    /\ calls = <<>>
    /\ kpi_delta = <<>>
    /\ profitability = <<>>
    /\ filtered_df_end = <<>>
    /\ abc_df = <<>>
    /\ abc_df_end = <<>>
    /\ operations = <<>>

\* The first run: load_data(), then the warning, or the sidebar with every
\* widget at its default and what follows it.
Init ==
    /\ data = <<>>
    /\ current = 0
    /\ previous = 0
    /\ ret = NoCall
    /\ load_message \in LoadOutcomes
    /\ df \in (IF load_message = "none" THEN Datasets ELSE {<<>>})
    /\ IF load_message = "exception"
       THEN shown = "exception" /\ NoSidebar
       ELSE IF df = <<>>
       THEN shown = "load_warning" /\ NoSidebar
       ELSE /\ start_date = min_d(df)
            /\ end_date = max_d(df)
            /\ selected_states = Range(DefaultFive(all_states(df)))
            /\ available_cities = available_cities_of(df, selected_states)
            /\ selected_cities = Range(DefaultFive(Sorted(Cities, available_cities)))
            /\ selected_categories = Range(all_categories(df))
            /\ filtered_df = FilteredView(df, start_date, end_date, selected_states,
                                          selected_cities, selected_categories)
            /\ \E t \in Tabs(df, filtered_df) :
                  /\ shown = t.shown
                  /\ calls = t.calls
                  /\ kpi_delta = t.kpi_delta
                  /\ profitability = t.profitability
                  /\ filtered_df_end = t.filtered_df_end
                  /\ abc_df = t.abc_df
                  /\ abc_df_end = t.abc_df_end
                  /\ operations = t.operations

\* The sidebar exists once a dataset with rows is loaded.
SidebarShown == df # <<>>

SetStartDate ==
    /\ SidebarShown
    /\ \E d \in DateChoices :
          Pass(d, end_date, selected_states, selected_cities, selected_categories)

SetEndDate ==
    /\ SidebarShown
    /\ \E d \in DateChoices :
          Pass(start_date, d, selected_states, selected_cities, selected_categories)

SelectStates ==
    /\ SidebarShown
    /\ \E S \in SUBSET Range(all_states(df)) :
          Pass(start_date, end_date, S, selected_cities, selected_categories)

SelectCities ==
    /\ SidebarShown
    /\ \E C \in SUBSET available_cities :
          Pass(start_date, end_date, selected_states, C, selected_categories)

SelectCategories ==
    /\ SidebarShown
    /\ \E K \in SUBSET Range(all_categories(df)) :
          Pass(start_date, end_date, selected_states, selected_cities, K)

Next ==
    \/ SetStartDate
    \/ SetEndDate
    \/ SelectStates
    \/ SelectCities
    \/ SelectCategories

Spec == Init /\ [][Next]_vars

\* C8: the filtered view holds exactly the rows of the dataset, in their
\* order, whose order date lies in [start, end] (both ends included) and whose
\* state, city and category are among the selected ones; with the full date
\* range and every state, city and category selected it equals the dataset.
C8_FilteredViewExact ==
    SidebarShown =>
        LET keep == { i \in DOMAIN df :
                        /\ start_date <= DateOf(df[i].Order_Date)
                        /\ DateOf(df[i].Order_Date) <= end_date
                        /\ df[i].State \in selected_states
                        /\ df[i].City \in selected_cities
                        /\ df[i].Category \in selected_categories }
        IN  /\ Len(filtered_df) = Cardinality(keep)
            /\ \A i \in keep :
                  filtered_df[Cardinality({ j \in keep : j <= i })] = df[i]
            /\ ( /\ start_date = min_d(df)
                 /\ end_date = max_d(df)
                 /\ selected_states = { df[i].State : i \in DOMAIN df }
                 /\ selected_cities = { df[i].City : i \in DOMAIN df }
                 /\ selected_categories = { df[i].Category : i \in DOMAIN df } )
               => filtered_df = df

\* A two-day dataset narrowed to its second day only.
C8_Witness ==
    /\ shown = "tabs"
    /\ Len(df) = 2
    /\ selected_states = { df[i].State : i \in DOMAIN df }
    /\ DateOf(df[1].Order_Date) = 1
    /\ DateOf(df[2].Order_Date) = 2
    /\ start_date = 2
    /\ end_date = 2
    /\ filtered_df = <<df[2]>>

\* C10: the city options are exactly the cities of the rows of the dataset
\* whose state is selected; with no state selected there is none.
C10_CityOptionsOfSelectedStates ==
    /\ \A c \in available_cities :
          \E i \in DOMAIN df : df[i].City = c /\ df[i].State \in selected_states
    /\ \A i \in DOMAIN df :
          df[i].State \in selected_states => df[i].City \in available_cities
    /\ selected_states = {} => available_cities = {}

\* One of two states deselected: its city is no longer offered.
C10_Witness ==
    /\ SidebarShown
    /\ Len(df) = 2
    /\ df[1].State = "S1" /\ df[1].City = "C1"
    /\ df[2].State = "S2" /\ df[2].City = "C3"
    /\ selected_states = {"S2"}
    /\ available_cities = {"C3"}

\* C12: the analysis functions (calculate_growth_rate of the KPI cards,
\* analyze_profitability, calculate_abc_analysis, analyze_operations) are called
\* only when load_data() returned a dataset with rows and the filtered view has
\* rows; when the file is missing or unreadable, or the filtered view is empty,
\* a message is shown and none of them is called.
C12_CoreCalledOnlyOnLoadedNonEmpty ==
    /\ calls # <<>> =>
          /\ load_message = "none"
          /\ df # <<>>
          /\ filtered_df # <<>>
    /\ load_message \in {"file_not_found", "read_error"} =>
          /\ shown = "load_warning"
          /\ calls = <<>>
    /\ (df # <<>> /\ filtered_df = <<>>) =>
          /\ shown = "no_data_warning"
          /\ calls = <<>>
    /\ shown = "tabs" => calls = TabCalls

\* A rerun after a widget change narrowed the view, and the tabs were built.
C12_Witness ==
    /\ shown = "tabs"
    /\ calls = TabCalls
    /\ load_message = "none"
    /\ Len(filtered_df) = 1
    /\ Len(df) = 2

\* C13: within one pass nothing derived is modified after it was derived: the
\* filtered view and the ABC table are, at the end of the pass, what they were
\* when they were computed, contents and columns alike, and the raw loaded
\* dataset is what it was before the pass.
C13_NoDerivedEntityModified ==
    [][ /\ df' = df
        /\ shown' = "tabs" =>
              /\ filtered_df_end' = filtered_df'
              /\ abc_df_end' = abc_df' ]_vars

\* shown is g written with one decimal: a number of tenths at most half a
\* tenth away from g.
ShownAtOneDecimal(x, g) ==
    /\ x.kind = "num"
    /\ g.kind = "num"
    /\ 10 % x.den = 0
    /\ 20 * Abs(g.num * x.den - x.num * g.den) <= g.den * x.den

\* C14: whenever the filtered view has rows, the delta beside Total Sales,
\* Total Quantity and Total Profit is calculate_growth_rate(total over the
\* filtered view, total over the whole loaded dataset), shown with one decimal;
\* it is 0 when the filters keep the whole dataset, and for sales and quantity
\* it lies in [-100, 0].
C14_KpiDeltaAgainstWholeDataset ==
    shown = "tabs" =>
        /\ \A c \in KpiColumns :
              ShownAtOneDecimal(kpi_delta[c],
                                calculate_growth_rate(ColumnSum(filtered_df, c),
                                                      ColumnSum(df, c)))
        /\ filtered_df = df => \A c \in KpiColumns : kpi_delta[c] = Num(0, 1)
        /\ \A c \in {"Sales_Amount", "Quantity"} :
              /\ LeqInt(kpi_delta[c], 0)
              /\ Leq(Num(-100, 1), kpi_delta[c])

\* The view keeps the 500 of 800 in sales, 5 of 8 in quantity and the 50 of a
\* total profit of 10: -37.5, -37.5 and +400.0.
C14_Witness ==
    /\ shown = "tabs"
    /\ Len(df) = 2
    /\ Len(filtered_df) = 1
    /\ ColumnSum(df, "Sales_Amount") = 800
    /\ ColumnSum(filtered_df, "Sales_Amount") = 500
    /\ kpi_delta["Sales_Amount"] = Num(-375, 10)
    /\ kpi_delta["Quantity"] = Num(-375, 10)
    /\ kpi_delta["Profit_INR"] = Num(400, 1)

====
